---- MODULE Spec2Model ----
(***************************************************************************)
(* A model of main.py, the paper-similarity checker: read two documents,   *)
(* segment and filter them, count term frequencies, compute the cosine     *)
(* similarity of the two count vectors in binary64 floating point, round   *)
(* it and write it with two decimals.                                      *)
(*                                                                         *)
(* Python's float is IEEE-754 binary64.  The three float operations the    *)
(* program performs (math.sqrt, *, /) and its two decimal conversions      *)
(* (round(x, 4) and the format .2f) are modelled bit-exactly: a float is a *)
(* sign, a 53-bit mantissa and an exponent, the mantissa held as a         *)
(* little-endian sequence of 15-bit limbs because it does not fit the      *)
(* model checker's integers.                                               *)
(***************************************************************************)
EXTENDS Integers, Sequences, FiniteSets, TLC

(***************************************************************************)
(* Natural numbers of any size: little-endian limb sequences, base 2^15,   *)
(* with no leading (high-end) zero limb; zero is the empty sequence.       *)
(***************************************************************************)
LimbBits == 15
Base == 2^LimbBits

RECURSIVE BNorm(_)
BNorm(a) ==
    IF a = <<>> THEN <<>>
    ELSE IF a[Len(a)] = 0 THEN BNorm(SubSeq(a, 1, Len(a) - 1))
    ELSE a

RECURSIVE BigOf(_)
BigOf(n) == IF n = 0 THEN <<>> ELSE <<n % Base>> \o BigOf(n \div Base)

Limb(a, i) == IF i <= Len(a) THEN a[i] ELSE 0

Max2(x, y) == IF x >= y THEN x ELSE y

RECURSIVE BAddC(_, _, _, _)
BAddC(a, b, i, c) ==
    IF i > Max2(Len(a), Len(b)) THEN (IF c = 0 THEN <<>> ELSE <<c>>)
    ELSE LET s == Limb(a, i) + Limb(b, i) + c
         IN  <<s % Base>> \o BAddC(a, b, i + 1, s \div Base)

BAdd(a, b) == BAddC(a, b, 1, 0)

\* a - b for a >= b
RECURSIVE BSubC(_, _, _, _)
BSubC(a, b, i, c) ==
    IF i > Len(a) THEN <<>>
    ELSE LET s == a[i] - Limb(b, i) - c
         IN  IF s < 0 THEN <<s + Base>> \o BSubC(a, b, i + 1, 1)
             ELSE <<s>> \o BSubC(a, b, i + 1, 0)

BSub(a, b) == BNorm(BSubC(a, b, 1, 0))

\* -1, 0, 1 as a < b, a = b, a > b (both normalised)
RECURSIVE BCmpAt(_, _, _)
BCmpAt(a, b, i) ==
    IF i = 0 THEN 0
    ELSE IF a[i] < b[i] THEN -1
    ELSE IF a[i] > b[i] THEN 1
    ELSE BCmpAt(a, b, i - 1)

BCmp(a, b) ==
    IF Len(a) < Len(b) THEN -1
    ELSE IF Len(a) > Len(b) THEN 1
    ELSE BCmpAt(a, b, Len(a))

\* a * k for 0 <= k < Base
RECURSIVE BMulSmallC(_, _, _, _)
BMulSmallC(a, k, i, c) ==
    IF i > Len(a) THEN (IF c = 0 THEN <<>> ELSE <<c>>)
    ELSE LET s == a[i] * k + c
         IN  <<s % Base>> \o BMulSmallC(a, k, i + 1, s \div Base)

BMulSmall(a, k) == IF k = 0 THEN <<>> ELSE BMulSmallC(a, k, 1, 0)

Zeros(q) == [i \in 1..q |-> 0]

RECURSIVE BMulAt(_, _, _)
BMulAt(a, b, i) ==
    IF i > Len(a) THEN <<>>
    ELSE LET p == BMulSmall(b, a[i])
             t == IF p = <<>> THEN <<>> ELSE Zeros(i - 1) \o p
         IN  BAdd(t, BMulAt(a, b, i + 1))

BMul(a, b) == BMulAt(a, b, 1)

\* a * 2^k
BShl(a, k) ==
    IF a = <<>> THEN <<>>
    ELSE Zeros(k \div LimbBits) \o BMulSmall(a, 2^(k % LimbBits))

\* floor(a / 2^k)
BShr(a, k) ==
    LET limbs == k \div LimbBits
        bits  == k % LimbBits
        hi    == IF limbs >= Len(a) THEN <<>> ELSE SubSeq(a, limbs + 1, Len(a))
    IN  BNorm([i \in 1..Len(hi) |->
                 (hi[i] \div 2^bits) + (Limb(hi, i + 1) % 2^bits) * 2^(LimbBits - bits)])

RECURSIVE BitLenSmall(_)
BitLenSmall(n) == IF n = 0 THEN 0 ELSE 1 + BitLenSmall(n \div 2)

BBitLen(a) ==
    IF a = <<>> THEN 0 ELSE (Len(a) - 1) * LimbBits + BitLenSmall(a[Len(a)])

BBit(a, k) == (Limb(a, (k \div LimbBits) + 1) \div 2^(k % LimbBits)) % 2

BIsOdd(a) == a # <<>> /\ a[1] % 2 = 1

\* The quotient limb of R by b, for R < b * Base and b's top limb at least
\* Base / 2: the estimate from the top limbs is at most two too large, and is
\* lowered until it fits
RECURSIVE BDigitFit(_, _, _)
BDigitFit(R, b, d) ==
    IF BCmp(BMulSmall(b, d), R) > 0 THEN BDigitFit(R, b, d - 1) ELSE d

BDigit(R, b) ==
    LET n   == Len(b)
        est == (Limb(R, n + 1) * Base + Limb(R, n)) \div b[n]
    IN  BDigitFit(R, b, IF est >= Base THEN Base - 1 ELSE est)

\* Long division by limbs, from a's limb i down, with quotient q and remainder
\* r so far (r stays below b): a record of the quotient q and the remainder r
RECURSIVE BDivModAt(_, _, _, _, _)
BDivModAt(a, b, i, q, r) ==
    IF i = 0 \/ BCmp(r, b) >= 0 THEN [q |-> BNorm(q), r |-> r]
    ELSE LET R == BNorm(<<a[i]>> \o r)
             d == BDigit(R, b)
         IN  BDivModAt(a, b, i - 1, <<d>> \o q, BSub(R, BMulSmall(b, d)))

\* floor(a / b) and a mod b, for b > 0: both are first scaled to bring b's top
\* limb to at least Base / 2, which leaves the quotient as it is, and the
\* remainder is scaled back
BDivMod(a, b) ==
    LET s  == LimbBits - BitLenSmall(b[Len(b)])
        qr == BDivModAt(BShl(a, s), BShl(b, s), Len(BShl(a, s)), <<>>, <<>>)
    IN  [q |-> qr.q, r |-> BShr(qr.r, s)]

\* floor(sqrt(a)), by Newton's iteration from a power of two above the root:
\* the iterates decrease until they reach it
RECURSIVE BISqrtFrom(_, _)
BISqrtFrom(a, x) ==
    LET y == BShr(BAdd(x, BDivMod(a, x).q), 1)
    IN  IF BCmp(y, x) >= 0 THEN x ELSE BISqrtFrom(a, y)

BISqrt(a) ==
    IF a = <<>> THEN <<>>
    ELSE BISqrtFrom(a, BShl(<<1>>, (BBitLen(a) + 1) \div 2))

RECURSIVE BToInt(_)
BToInt(a) == IF a = <<>> THEN 0 ELSE a[1] + Base * BToInt(Tail(a))

(***************************************************************************)
(* binary64.  A float is [neg, m, e]: the value (-1)^neg * m * 2^e with    *)
(* 2^52 <= m < 2^53, or m = 0 (and e = 0) for zero.  Every operation       *)
(* returns the exact result rounded to nearest, ties to even, as IEEE-754  *)
(* requires of sqrt, * and /.  The program's values lie far inside the     *)
(* normal range, so subnormals, infinities and NaN are not represented.    *)
(***************************************************************************)
MantBits == 53

FZero == [neg |-> FALSE, m |-> <<>>, e |-> 0]

FIsZero(x) == x.m = <<>>

\* The float nearest to (-1)^neg * (N + t) * 2^e, where 0 <= t < 1 and sticky
\* says whether t > 0.  A caller that passes sticky passes an N of more than
\* MantBits + 1 bits.
FRound(neg, N, e, sticky) ==
    IF N = <<>> THEN FZero
    ELSE LET L == BBitLen(N)
         IN  IF L <= MantBits
             THEN [neg |-> neg, m |-> BShl(N, MantBits - L), e |-> e - (MantBits - L)]
             ELSE LET sh  == L - MantBits
                      q   == BShr(N, sh)
                      rem == BSub(N, BShl(q, sh))
                      c   == BCmp(rem, BShl(<<1>>, sh - 1))
                      up  == c > 0 \/ (c = 0 /\ (sticky \/ BIsOdd(q)))
                      m1  == IF up THEN BAdd(q, <<1>>) ELSE q
                  IN  IF BBitLen(m1) > MantBits
                      THEN [neg |-> neg, m |-> BShr(m1, 1), e |-> e + sh + 1]
                      ELSE [neg |-> neg, m |-> m1, e |-> e + sh]

\* float(n) for a Python int n
FromInt(n) == FRound(n < 0, BigOf(IF n < 0 THEN -n ELSE n), 0, FALSE)

\* The float nearest to (-1)^neg * (num / den) * 2^e, den > 0
FQuot(neg, num, den, e) ==
    IF num = <<>> THEN FZero
    ELSE LET k  == Max2(0, MantBits + 3 + BBitLen(den) - BBitLen(num))
             qr == BDivMod(BShl(num, k), den)
         IN  FRound(neg, qr.q, e - k, qr.r # <<>>)

\* x * y
FMul(x, y) ==
    IF FIsZero(x) \/ FIsZero(y) THEN FZero
    ELSE FRound(x.neg # y.neg, BMul(x.m, y.m), x.e + y.e, FALSE)

\* x / y for y # 0
FDiv(x, y) ==
    IF FIsZero(x) THEN FZero
    ELSE FQuot(x.neg # y.neg, x.m, y.m, x.e - y.e)

\* math.sqrt(x) for x >= 0
FSqrt(x) ==
    IF FIsZero(x) THEN FZero
    ELSE LET odd == x.e % 2 = 1
             m2  == IF odd THEN BAdd(x.m, x.m) ELSE x.m
             e2  == IF odd THEN x.e - 1 ELSE x.e
             k   == 30
             N   == BShl(m2, 2 * k)
             s   == BISqrt(N)
         IN  FRound(FALSE, s, (e2 \div 2) - k, BMul(s, s) # N)

\* -1, 0, 1 as |x| < |y|, |x| = |y|, |x| > |y|
FCmpAbs(x, y) ==
    IF FIsZero(x) THEN (IF FIsZero(y) THEN 0 ELSE -1)
    ELSE IF FIsZero(y) THEN 1
    ELSE IF x.e < y.e THEN -1
    ELSE IF x.e > y.e THEN 1
    ELSE BCmp(x.m, y.m)

\* -1, 0, 1 as x < y, x = y, x > y (-0.0 = 0.0)
FCmp(x, y) ==
    LET xn == x.neg /\ ~FIsZero(x)
        yn == y.neg /\ ~FIsZero(y)
    IN  IF xn /\ ~yn THEN -1
        ELSE IF ~xn /\ yn THEN 1
        ELSE IF xn THEN -FCmpAbs(x, y)
        ELSE FCmpAbs(x, y)

FLe(x, y) == FCmp(x, y) <= 0

FEq(x, y) == FCmp(x, y) = 0

\* |x| * 10^p rounded to the nearest integer, ties to even: the digits that
\* a correctly rounded conversion of x to p decimals prints
DecDigits(x, p) ==
    IF FIsZero(x) THEN <<>>
    ELSE LET T == BMul(x.m, BigOf(10^p))
         IN  IF x.e >= 0 THEN BShl(T, x.e)
             ELSE LET s   == -x.e
                      q   == BShr(T, s)
                      rem == BSub(T, BShl(q, s))
                      c   == BCmp(rem, BShl(<<1>>, s - 1))
                  IN  IF c > 0 \/ (c = 0 /\ BIsOdd(q)) THEN BAdd(q, <<1>>) ELSE q

\* round(x, p): the float nearest to x's correctly rounded p-decimal value
PyRound(x, p) == FQuot(x.neg, DecDigits(x, p), BigOf(10^p), 0)

\* f"{x:.2f}": a sign, the integer part and the two decimals
Format2f(x) ==
    LET K == BToInt(DecDigits(x, 2))
    IN  [neg |-> x.neg, int |-> K \div 100, frac |-> K % 100]

(***************************************************************************)
(* The program.  A text is a sequence of units: each unit is one segment   *)
(* that jieba.lcut returns (a word, or a run of white space), or one       *)
(* punctuation character, which preprocess_text deletes before it calls    *)
(* jieba.  The segmentation itself is the library's and is taken as given. *)
(* The words of main.py are Chinese; the model writes them in pinyin.      *)
(***************************************************************************)
VARIABLES
    pc,          \* where the run is
    argv,        \* sys.argv
    fs,          \* the file system: path -> [kind, content]
    io,          \* the file operations done so far, in order
    stderr,      \* the messages printed to sys.stderr, in order
    orig_text,   \* calculate_similarity's locals
    copy_text,
    orig_words,
    copy_words,
    orig_freq,
    copy_freq,
    cosine,      \* what calculate_cosine_similarity returned (or raised)
    similarity,  \* main's similarity: what calculate_similarity returned
    raised,      \* the exception each call of read_file and write_result raised
    exit_code,   \* the status sys.exit was called with, -1 while running
    ins_orig,    \* the two token sequences with extra tokens inserted
    ins_copy

vars == <<pc, argv, fs, io, stderr, orig_text, copy_text, orig_words, copy_words,
          orig_freq, copy_freq, cosine, similarity, raised, exit_code,
          ins_orig, ins_copy>>

\* The 36 stop words of main.py, in its order: de le zai shi wo you he jiu bu
\* ren dou yi, yige shang ye hen dao shuo yao qu ni hui zhe meiyou, kan hao
\* ziji zhe ge zhong wei yi yu deng neng dui (the digit is the tone, where two
\* of them are spelt alike)
STOPWORDS ==
    {"de", "le", "zai", "shi", "wo", "you", "he", "jiu", "bu", "ren", "dou", "yi1",
     "yige", "shang", "ye", "hen", "dao", "shuo", "yao", "qu", "ni", "hui", "zhe0",
     "meiyou", "kan", "hao", "ziji", "zhe4", "ge", "zhong", "wei", "yi3", "yu",
     "deng", "neng", "dui"}

\* str.isspace and str.isalnum on a unit; "," and "@" stand for the
\* punctuation and the symbols, which are neither
Whitespace == {" ", "\t"}
Punctuation == {",", "@"}
isspace(ch) == ch \in Whitespace
isalnum(ch) == ch \notin Whitespace /\ ch \notin Punctuation

\* What a call returns: a value, or the exception it raised
Return(v) == [exc |-> "none", val |-> v]
Raise(e, none) == [exc |-> e, val |-> none]

\* Python's exception classes, as far as the program meets them: whether an
\* exception of class e is caught by "except c"
Parents ==
    [FileNotFoundError |-> "OSError", IsADirectoryError |-> "OSError",
     PermissionError |-> "OSError", OSError |-> "Exception",
     UnicodeDecodeError |-> "ValueError", ValueError |-> "Exception",
     TypeError |-> "Exception", ZeroDivisionError |-> "Exception",
     Exception |-> "BaseException", SystemExit |-> "BaseException"]

RECURSIVE isinstance(_, _)
isinstance(e, c) ==
    \/ e = c
    \/ e \in DOMAIN Parents /\ isinstance(Parents[e], c)

RECURSIVE lstrip(_)
lstrip(text) ==
    IF text # <<>> /\ isspace(Head(text)) THEN lstrip(Tail(text)) ELSE text

RECURSIVE rstrip(_)
rstrip(text) ==
    IF text # <<>> /\ isspace(text[Len(text)])
    THEN rstrip(SubSeq(text, 1, Len(text) - 1))
    ELSE text

strip(text) == rstrip(lstrip(text))

\* The body of read_file's try: open the file, decode it, strip it
read_file_try(file) ==
    IF file.kind = "denied" THEN Raise("PermissionError", <<>>)
    ELSE IF file.kind = "undecodable" THEN Raise("UnicodeDecodeError", <<>>)
    ELSE LET content == strip(file.content)
         IN  IF content = <<>> THEN Raise("ValueError", <<>>)
             ELSE Return(content)

\* The except clauses of read_file, in order; the first that matches handles
\* the exception.  UnicodeDecodeError(message) is itself a TypeError: the
\* class takes five arguments.
read_file_except(e) ==
    IF isinstance(e, "PermissionError") THEN "PermissionError"
    ELSE IF isinstance(e, "UnicodeDecodeError") THEN "TypeError"
    ELSE IF isinstance(e, "Exception") THEN "Exception"
    ELSE e

read_file(files, file_path) ==
    LET file == files[file_path]
    IN  IF file.kind = "missing" THEN Raise("FileNotFoundError", <<>>)
        ELSE IF file.kind = "dir" THEN Raise("IsADirectoryError", <<>>)
        ELSE LET r == read_file_try(file)
             IN  IF r.exc = "none" THEN r
                 ELSE Raise(read_file_except(r.exc), <<>>)

\* The file operations of read_file
read_file_io(files, file_path) ==
    LET kind == files[file_path].kind
    IN  <<[op |-> "exists", path |-> file_path]>>
        \o (IF kind = "missing" THEN <<>>
            ELSE <<[op |-> "isfile", path |-> file_path]>>)
        \o (IF kind \in {"missing", "dir"} THEN <<>>
            ELSE <<[op |-> "open_r", path |-> file_path]>>)

\* write_result: what it raises, and the file system it leaves.  open(..., 'w')
\* creates a missing file and empties an existing one.
write_result_except(e) ==
    IF isinstance(e, "PermissionError") THEN "PermissionError"
    ELSE IF isinstance(e, "Exception") THEN "Exception"
    ELSE e

write_result(files, file_path, sim) ==
    LET kind == files[file_path].kind
    IN  IF kind = "denied"
        THEN [exc |-> write_result_except("PermissionError"), fs |-> files]
        ELSE IF kind = "dir"
        THEN [exc |-> write_result_except("IsADirectoryError"), fs |-> files]
        ELSE [exc |-> "none",
              fs  |-> [files EXCEPT
                         ![file_path] = [kind |-> "file", content |-> Format2f(sim)]]]

keep_char(ch) == isalnum(ch) \/ isspace(ch)

\* jieba.lcut on a cleaned text: its units are the segments
lcut(text) == text

\* A filter that forgets word.strip(): white-space tokens pass
keep_word_unstripped(word) == word \notin STOPWORDS

\* main.py line 58: word.strip() is empty for a token of white space
keep_word(word) == ~isspace(word) /\ word # "" /\ word \notin STOPWORDS

preprocess_text(text) ==
    LET cleaned == SelectSeq(text, keep_char)
        words   == lcut(cleaned)
    IN  SelectSeq(words, keep_word)

get_word_frequency(words) ==
    [w \in {words[i] : i \in DOMAIN words} |->
        Cardinality({i \in DOMAIN words : words[i] = w})]

RECURSIVE Sum(_)
Sum(f) ==
    IF DOMAIN f = {} THEN 0
    ELSE LET x == CHOOSE x \in DOMAIN f : TRUE
         IN  f[x] + Sum([y \in DOMAIN f \ {x} |-> f[y]])

\* dict.get with the wrong default
freq_get_default_one(freq, word) == IF word \in DOMAIN freq THEN freq[word] ELSE 1

\* dict.get(word, 0)
freq_get(freq, word) == IF word \in DOMAIN freq THEN freq[word] ELSE 0

all_words_of(a_freq, b_freq) == DOMAIN a_freq \cup DOMAIN b_freq

dot_product_of(a_freq, b_freq) ==
    Sum([w \in all_words_of(a_freq, b_freq) |->
           freq_get(a_freq, w) * freq_get(b_freq, w)])

\* Norms that add the counts and not their squares
orig_norm_unsquared(a_freq, b_freq) ==
    Sum([w \in DOMAIN a_freq \cup DOMAIN b_freq |->
           IF w \in DOMAIN a_freq THEN a_freq[w] ELSE 0])

copy_norm_unsquared(a_freq, b_freq) ==
    Sum([w \in DOMAIN a_freq \cup DOMAIN b_freq |->
           IF w \in DOMAIN b_freq THEN b_freq[w] ELSE 0])

orig_norm_of(a_freq, b_freq) ==
    Sum([w \in all_words_of(a_freq, b_freq) |-> freq_get(a_freq, w) ^ 2])

copy_norm_of(a_freq, b_freq) ==
    Sum([w \in all_words_of(a_freq, b_freq) |-> freq_get(b_freq, w) ^ 2])

\* A guard that returns 0.0 only when both norms are zero
norm_is_zero_both(orig_norm, copy_norm) == orig_norm = 0 /\ copy_norm = 0

norm_is_zero(orig_norm, copy_norm) == orig_norm = 0 \/ copy_norm = 0

\* int / float: the int is converted, and a zero divisor raises
true_divide(n, x) ==
    IF FIsZero(x) THEN Raise("ZeroDivisionError", FZero)
    ELSE Return(FDiv(FromInt(n), x))

\* math.sqrt(n) for a Python int n >= 0.  The square roots of the small
\* integers are computed once and kept, the others when asked for.
SqrtTable == [n \in 0..40 |-> FSqrt(FromInt(n))]

math_sqrt(n) ==
    IF n \in DOMAIN SqrtTable THEN SqrtTable[n] ELSE FSqrt(FromInt(n))

calculate_cosine_similarity(a_freq, b_freq) ==
    LET dot_product == dot_product_of(a_freq, b_freq)
        orig_norm   == orig_norm_of(a_freq, b_freq)
        copy_norm   == copy_norm_of(a_freq, b_freq)
    IN  IF norm_is_zero(orig_norm, copy_norm) THEN Return(FZero)
        ELSE true_divide(dot_product,
                         FMul(math_sqrt(orig_norm), math_sqrt(copy_norm)))

\* The end of calculate_similarity: round(similarity, 4), or 0.0 from its
\* except clause when the computation raised
similarity_result(r) ==
    IF r.exc # "none" /\ isinstance(r.exc, "Exception") THEN FZero
    ELSE PyRound(r.val, 4)

(***************************************************************************)
(* Bounds and inputs                                                       *)
(***************************************************************************)
MaxArgs == 4        \* command-line arguments after the script's name
MaxCount == 2       \* the largest count in a term-frequency map
MaxInsert == 2      \* extra tokens inserted into the two token sequences
MaxWrite == 48      \* write_result is given n/16 for -MaxWrite <= n <= MaxWrite

PathNames == <<"orig.txt", "copy.txt", "out.txt", "extra1", "extra2", "extra3">>

ArgVectors ==
    {<<"main.py">> \o SubSeq(PathNames, 1, n) : n \in 0..MaxArgs}

\* Texts a file may hold: nothing, white space only, stop words only, and
\* texts with words, punctuation and white space around them
Texts ==
    {<<>>, <<" ", "\t">>, <<"de", "le">>,
     <<"jintian", "shi", "xingqitian", ",", "tianqi", "qing">>,
     <<" ", "jintian", "tianqi", "@", "jintian", " ">>,
     <<"dianying">>}

InputFiles ==
    {[kind |-> k, content |-> <<>>] : k \in {"missing", "dir", "denied", "undecodable"}}
    \cup {[kind |-> "file", content |-> t] : t \in Texts}

NoOutput == [neg |-> FALSE, int |-> 0, frac |-> 0]

\* What the result path may be before the run: an old result, nothing, a file
\* that may not be written, a directory
OutputFiles ==
    {[kind |-> "file", content |-> [neg |-> FALSE, int |-> 9, frac |-> 99]]}
    \cup {[kind |-> k, content |-> NoOutput] : k \in {"missing", "denied", "dir"}}

NoFiles == [p \in {} |-> [kind |-> "missing", content |-> <<>>]]
NoFreq == [w \in {} |-> 0]
NotRaised == [orig |-> "none", copy |-> "none", write |-> "none"]

(***************************************************************************)
(* main: one run of the program, a step for each call it makes             *)
(***************************************************************************)
Init ==
    /\ pc = "main"
    /\ argv \in ArgVectors
    /\ \E o \in InputFiles, c \in InputFiles, r \in OutputFiles :
          fs = [p \in {PathNames[1], PathNames[2], PathNames[3]} |->
                  IF p = PathNames[1] THEN o ELSE IF p = PathNames[2] THEN c ELSE r]
    /\ io = <<>>
    /\ stderr = <<>>
    /\ orig_text = <<>> /\ copy_text = <<>>
    /\ orig_words = <<>> /\ copy_words = <<>>
    /\ orig_freq = NoFreq /\ copy_freq = NoFreq
    /\ cosine = Return(FZero)
    /\ similarity = FZero
    /\ raised = NotRaised
    /\ exit_code = -1
    /\ ins_orig = <<>> /\ ins_copy = <<>>

\* A check that only refuses too few arguments
usage_error_too_few(args) == Len(args) < 4

\* main.py line 119
usage_error(args) == Len(args) # 4

\* main, lines 119-125: the check of the arguments
CheckArgs ==
    /\ pc = "main"
    /\ IF usage_error(argv)
       THEN /\ stderr' = Append(stderr, "usage")
            /\ exit_code' = 1
            /\ pc' = "exit"
       ELSE /\ pc' = "read_orig"
            /\ UNCHANGED <<stderr, exit_code>>
    /\ UNCHANGED <<argv, fs, io, orig_text, copy_text, orig_words, copy_words,
                   orig_freq, copy_freq, cosine, similarity, raised, ins_orig, ins_copy>>

\* calculate_similarity's except clause (lines 113-115) after read_file raised
\* e: it prints the error and returns 0.0 to main, which goes on to write it
read_failed(e) ==
    IF isinstance(e, "Exception")
    THEN [pc |-> "write", stderr |-> <<"calculate_similarity">>, exit_code |-> -1]
    ELSE [pc |-> "exit", stderr |-> <<>>, exit_code |-> 1]

\* calculate_similarity, line 98
ReadOrig ==
    /\ pc = "read_orig"
    /\ LET r == read_file(fs, argv[2])
       IN  /\ io' = io \o read_file_io(fs, argv[2])
           /\ raised' = [raised EXCEPT !.orig = r.exc]
           /\ IF r.exc = "none"
              THEN /\ orig_text' = r.val
                   /\ pc' = "read_copy"
                   /\ UNCHANGED <<stderr, similarity, exit_code>>
              ELSE /\ pc' = read_failed(r.exc).pc
                   /\ stderr' = stderr \o read_failed(r.exc).stderr
                   /\ exit_code' = read_failed(r.exc).exit_code
                   /\ similarity' = FZero
                   /\ UNCHANGED orig_text
    /\ UNCHANGED <<argv, fs, copy_text, orig_words, copy_words, orig_freq,
                   copy_freq, cosine, ins_orig, ins_copy>>

\* calculate_similarity, line 99
ReadCopy ==
    /\ pc = "read_copy"
    /\ LET r == read_file(fs, argv[3])
       IN  /\ io' = io \o read_file_io(fs, argv[3])
           /\ raised' = [raised EXCEPT !.copy = r.exc]
           /\ IF r.exc = "none"
              THEN /\ copy_text' = r.val
                   /\ pc' = "compute"
                   /\ UNCHANGED <<stderr, similarity, exit_code>>
              ELSE /\ pc' = read_failed(r.exc).pc
                   /\ stderr' = stderr \o read_failed(r.exc).stderr
                   /\ exit_code' = read_failed(r.exc).exit_code
                   /\ similarity' = FZero
                   /\ UNCHANGED copy_text
    /\ UNCHANGED <<argv, fs, orig_text, orig_words, copy_words, orig_freq,
                   copy_freq, cosine, ins_orig, ins_copy>>

\* calculate_similarity, lines 102-112
Compute ==
    /\ pc = "compute"
    /\ orig_words' = preprocess_text(orig_text)
    /\ copy_words' = preprocess_text(copy_text)
    /\ orig_freq' = get_word_frequency(orig_words')
    /\ copy_freq' = get_word_frequency(copy_words')
    /\ cosine' = calculate_cosine_similarity(orig_freq', copy_freq')
    /\ similarity' = similarity_result(cosine')
    /\ stderr' = IF cosine'.exc = "none" THEN stderr
                 ELSE Append(stderr, "calculate_similarity")
    /\ pc' = "write"
    /\ UNCHANGED <<argv, fs, io, orig_text, copy_text, raised, exit_code,
                   ins_orig, ins_copy>>

\* main, lines 129-133: write_result, then sys.exit(0), or sys.exit(1) from
\* the except clause
WriteResult ==
    /\ pc = "write"
    /\ LET w == write_result(fs, argv[4], similarity)
       IN  /\ fs' = w.fs
           /\ io' = Append(io, [op |-> "open_w", path |-> argv[4]])
           /\ raised' = [raised EXCEPT !.write = w.exc]
           /\ IF w.exc = "none"
              THEN /\ exit_code' = 0
                   /\ UNCHANGED stderr
              ELSE /\ exit_code' = 1
                   /\ stderr' = Append(stderr, "main")
    /\ pc' = "exit"
    /\ UNCHANGED <<argv, orig_text, copy_text, orig_words, copy_words, orig_freq,
                   copy_freq, cosine, similarity, ins_orig, ins_copy>>

Next == CheckArgs \/ ReadOrig \/ ReadCopy \/ Compute \/ WriteResult

Spec == Init /\ [][Next]_vars

(***************************************************************************)
(* calculate_cosine_similarity and the rounding of its result, applied to  *)
(* every pair of term-frequency maps over Vocabulary with counts up to     *)
(* MaxCount (a count of 0 is a key that is present with the value 0)       *)
(***************************************************************************)
Vocabulary == {"a", "b", "c"}

FreqMaps ==
    UNION {[keys -> 0..MaxCount] : keys \in SUBSET Vocabulary}

Unused ==
    /\ argv = <<>> /\ fs = NoFiles /\ io = <<>> /\ stderr = <<>>
    /\ orig_text = <<>> /\ copy_text = <<>>
    /\ raised = NotRaised /\ exit_code = -1

InitCosine ==
    /\ pc = "cosine"
    /\ orig_freq \in FreqMaps
    /\ copy_freq \in FreqMaps
    /\ cosine = Return(FZero)
    /\ similarity = FZero
    /\ orig_words = <<>> /\ copy_words = <<>>
    /\ ins_orig = <<>> /\ ins_copy = <<>>
    /\ Unused

\* calculate_similarity, line 110
Cosine ==
    /\ pc = "cosine"
    /\ cosine' = calculate_cosine_similarity(orig_freq, copy_freq)
    /\ pc' = "round"
    /\ UNCHANGED <<argv, fs, io, stderr, orig_text, copy_text, orig_words, copy_words,
                   orig_freq, copy_freq, similarity, raised, exit_code,
                   ins_orig, ins_copy>>

\* calculate_similarity, lines 112-115
Round ==
    /\ pc = "round"
    /\ similarity' = similarity_result(cosine)
    /\ pc' = "done"
    /\ UNCHANGED <<argv, fs, io, stderr, orig_text, copy_text, orig_words, copy_words,
                   orig_freq, copy_freq, cosine, raised, exit_code,
                   ins_orig, ins_copy>>

NextCosine == Cosine \/ Round

SpecCosine == InitCosine /\ [][NextCosine]_vars

(***************************************************************************)
(* The filter of preprocess_text (line 58), get_word_frequency and the     *)
(* similarity, applied to two token sequences and to the same sequences    *)
(* with stop words and white-space tokens inserted                         *)
(***************************************************************************)
TokenSequences ==
    {<<>>, <<"jintian">>, <<"jintian", "tianqi">>, <<"tianqi", "jintian", "jintian">>,
     <<"de", "dianying">>}

\* The tokens inserted: stop words, and tokens of white space
Inserted == {"de", "meiyou", " "}

InitFilter ==
    /\ pc = "tokens"
    /\ orig_words \in TokenSequences
    /\ copy_words \in TokenSequences
    /\ ins_orig = orig_words
    /\ ins_copy = copy_words
    /\ orig_freq = NoFreq /\ copy_freq = NoFreq
    /\ cosine = Return(FZero)
    /\ similarity = FZero
    /\ Unused

InsertAt(words, i, token) ==
    SubSeq(words, 1, i) \o <<token>> \o SubSeq(words, i + 1, Len(words))

NumInserted == (Len(ins_orig) - Len(orig_words)) + (Len(ins_copy) - Len(copy_words))

InsertOrig ==
    /\ pc = "tokens"
    /\ NumInserted < MaxInsert
    /\ \E i \in 0..Len(ins_orig), token \in Inserted :
          ins_orig' = InsertAt(ins_orig, i, token)
    /\ UNCHANGED <<pc, argv, fs, io, stderr, orig_text, copy_text, orig_words,
                   copy_words, orig_freq, copy_freq, cosine, similarity, raised,
                   exit_code, ins_copy>>

InsertCopy ==
    /\ pc = "tokens"
    /\ NumInserted < MaxInsert
    /\ \E i \in 0..Len(ins_copy), token \in Inserted :
          ins_copy' = InsertAt(ins_copy, i, token)
    /\ UNCHANGED <<pc, argv, fs, io, stderr, orig_text, copy_text, orig_words,
                   copy_words, orig_freq, copy_freq, cosine, similarity, raised,
                   exit_code, ins_orig>>

filter_words(words) == SelectSeq(words, keep_word)

\* calculate_similarity, lines 106-112, on the filtered token sequences
score_of(a_words, b_words) ==
    similarity_result(
        calculate_cosine_similarity(get_word_frequency(filter_words(a_words)),
                                    get_word_frequency(filter_words(b_words))))

Score ==
    /\ pc = "tokens"
    /\ orig_freq' = get_word_frequency(filter_words(ins_orig))
    /\ copy_freq' = get_word_frequency(filter_words(ins_copy))
    /\ cosine' = calculate_cosine_similarity(orig_freq', copy_freq')
    /\ similarity' = similarity_result(cosine')
    /\ pc' = "done"
    /\ UNCHANGED <<argv, fs, io, stderr, orig_text, copy_text, orig_words, copy_words,
                   raised, exit_code, ins_orig, ins_copy>>

NextFilter == InsertOrig \/ InsertCopy \/ Score

SpecFilter == InitFilter /\ [][NextFilter]_vars

(***************************************************************************)
(* write_result, applied to the floats n/16, in and out of [0, 1]          *)
(***************************************************************************)
WriteInputs ==
    {FQuot(n < 0, BigOf(IF n < 0 THEN -n ELSE n), BigOf(16), 0) :
        n \in (-MaxWrite)..MaxWrite}

InitWrite ==
    /\ pc = "write"
    /\ argv = <<"main.py">> \o SubSeq(PathNames, 1, 3)
    /\ \E r \in OutputFiles : fs = [p \in {PathNames[3]} |-> r]
    /\ similarity \in WriteInputs
    /\ io = <<>> /\ stderr = <<>>
    /\ orig_text = <<>> /\ copy_text = <<>>
    /\ orig_words = <<>> /\ copy_words = <<>>
    /\ orig_freq = NoFreq /\ copy_freq = NoFreq
    /\ cosine = Return(FZero)
    /\ raised = NotRaised /\ exit_code = -1
    /\ ins_orig = <<>> /\ ins_copy = <<>>

NextWrite == WriteResult

SpecWrite == InitWrite /\ [][NextWrite]_vars

(***************************************************************************)
(* The claims                                                              *)
(***************************************************************************)
FOne == FromInt(1)

\* 1 - 2^-51 and 1 + 2^-51
FOneBelow == FQuot(FALSE, BSub(BShl(<<1>>, 51), <<1>>), BShl(<<1>>, 51), 0)
FOneAbove == FQuot(FALSE, BAdd(BShl(<<1>>, 51), <<1>>), BShl(<<1>>, 51), 0)

HasPositive(freq) == \E w \in DOMAIN freq : freq[w] > 0
ZeroVector(freq) == \A w \in DOMAIN freq : freq[w] = 0

\* C1: for all term-frequency maps with non-negative counts, the value
\* calculate_cosine_similarity returns lies in [0.0, 1.0]
C1_InUnitRange ==
    pc \in {"round", "done"} =>
        /\ cosine.exc = "none"
        /\ FLe(FZero, cosine.val)
        /\ FLe(cosine.val, FOne)

\* C2: calculate_cosine_similarity(A, B) returns what
\* calculate_cosine_similarity(B, A) returns, empty maps included, and so
\* does the rounded score of the pair
C2_Symmetric ==
    /\ pc \in {"round", "done"} =>
          cosine = calculate_cosine_similarity(copy_freq, orig_freq)
    /\ pc = "done" =>
          similarity = similarity_result(calculate_cosine_similarity(copy_freq, orig_freq))

C2_Witness ==
    /\ pc = "done"
    /\ DOMAIN orig_freq # DOMAIN copy_freq
    /\ orig_norm_of(orig_freq, copy_freq) # copy_norm_of(orig_freq, copy_freq)
    /\ ~FIsZero(cosine.val)
    /\ ~FEq(cosine.val, FOne)

\* C3: if either map is empty or has only zero counts, so that its norm is
\* zero, calculate_cosine_similarity returns 0.0 and raises nothing
C3_ZeroNormGivesZero ==
    (pc \in {"round", "done"} /\ (ZeroVector(orig_freq) \/ ZeroVector(copy_freq))) =>
        /\ cosine.exc = "none"
        /\ cosine.val = FZero

C3_Witness ==
    /\ pc = "done"
    /\ orig_freq = NoFreq
    /\ HasPositive(copy_freq)
    /\ cosine = Return(FZero)

\* C4, as claimed: for identical maps with a positive count the value
\* calculate_cosine_similarity returns is exactly 1.0
C4_ExactlyOne ==
    (pc \in {"round", "done"} /\ orig_freq = copy_freq /\ HasPositive(orig_freq)) =>
        /\ cosine.exc = "none"
        /\ FEq(cosine.val, FOne)

\* C4, amended: for identical maps with a positive count the value
\* calculate_cosine_similarity returns is within 2^-51 of 1.0, and the score
\* calculate_similarity rounds it to is exactly 1.0
C4_OneUpToRounding ==
    (pc \in {"round", "done"} /\ orig_freq = copy_freq /\ HasPositive(orig_freq)) =>
        /\ cosine.exc = "none"
        /\ FLe(FOneBelow, cosine.val)
        /\ FLe(cosine.val, FOneAbove)
        /\ pc = "done" => similarity = FOne

C4_Witness ==
    /\ pc = "done"
    /\ orig_freq = copy_freq
    /\ HasPositive(orig_freq)
    /\ ~FEq(cosine.val, FOne)
    /\ similarity = FOne

\* C5: whenever read_file fails for either input, or write_result fails, main
\* ends with a non-zero exit status
C5_FailureExitsNonZero ==
    (pc = "exit" /\ (raised.orig # "none" \/ raised.copy # "none" \/ raised.write # "none"))
        => exit_code # 0

\* C6: with any number of arguments other than three, main does no file
\* operation, leaves every file as it is, and exits with status 1
C6_UsageErrorBeforeIO ==
    [][Len(argv) # 4 =>
          /\ io' = <<>>
          /\ fs' = fs
          /\ pc' = "exit"
          /\ exit_code' = 1]_vars

C6_Witness ==
    /\ Len(argv) > 4
    /\ pc = "exit"
    /\ exit_code = 1
    /\ fs[argv[4]].kind = "file"

\* C7: read_file on an existing regular file whose content is empty after
\* stripping raises ValueError
C7_EmptyRaisesValueError ==
    (/\ Len(argv) = 4
     /\ pc \notin {"main", "read_orig"}
     /\ fs[argv[2]].kind = "file"
     /\ strip(fs[argv[2]].content) = <<>>)
        => isinstance(raised.orig, "ValueError")

\* C8: for every value passed to write_result, the two-decimal string it
\* writes denotes a number between 0.00 and 1.00
C8_WrittenInUnitRange ==
    (pc = "exit" /\ raised.write = "none") =>
        LET written == fs[argv[4]].content
            cents   == written.int * 100 + written.frac
        IN  /\ cents <= 100
            /\ written.neg => cents = 0

\* C9: inserting stop words and white-space tokens anywhere in either token
\* sequence changes neither the term-frequency maps built after filtering
\* nor the similarity score
C9_StopwordInvariance ==
    pc = "done" =>
        /\ orig_freq = get_word_frequency(filter_words(orig_words))
        /\ copy_freq = get_word_frequency(filter_words(copy_words))
        /\ similarity = score_of(orig_words, copy_words)

C9_Witness ==
    /\ pc = "done"
    /\ \E i \in DOMAIN ins_orig : isspace(ins_orig[i])
    /\ \E i \in DOMAIN ins_copy : ins_copy[i] = "meiyou"
    /\ ~FIsZero(similarity)
    /\ ~FEq(similarity, FOne)

\* C10: for maps that share no key, calculate_cosine_similarity returns 0.0
C10_DisjointGivesZero ==
    (pc \in {"round", "done"} /\ DOMAIN orig_freq \cap DOMAIN copy_freq = {}) =>
        cosine = Return(FZero)

C10_Witness ==
    /\ pc = "done"
    /\ DOMAIN orig_freq \cap DOMAIN copy_freq = {}
    /\ HasPositive(orig_freq)
    /\ HasPositive(copy_freq)
    /\ cosine = Return(FZero)

====
